---- MODULE Spec2Model ----
(***************************************************************************)
(* A model of the foodgram backend (backend/foodgram): the recipe write    *)
(* path of api/serializers.py (create and update), the recipe routes, the  *)
(* favorite / shopping-cart toggles, the subscriptions and the             *)
(* shopping-list download of api/views.py, over the relational store       *)
(* declared in recipes/models.py and users/models.py.                      *)
(*                                                                         *)
(* Each handler is one action.  The source opens no transaction            *)
(* (no transaction.atomic anywhere), so every ORM call commits on its own  *)
(* and a handler that raises half-way keeps what it wrote before.          *)
(* Python-level behaviour of the handlers is modelled as written (a call   *)
(* of a method that does not exist raises AttributeError, a handler that   *)
(* falls off its end returns None).                                        *)
(***************************************************************************)
EXTENDS Integers, Sequences, FiniteSets, TLC

(* ------------------------------ bounds --------------------------------- *)

\* Recipe rows the store may hold (primary keys 1..MaxRecipes).
MaxRecipes == 2

\* Largest amount on an ingredient line.
MaxAmount == 2

\* Longest tag list / ingredient list of a request.
MaxLen == 2

\* Most ingredient lines the initial store of SpecCart holds.
MaxLines == 2

\* Requests that may be in progress at once.
MaxRequests == 2

(* ------------------------------ catalog -------------------------------- *)

Users == {"u1", "u2"}

\* request.user of a request that carries no token
AnonymousUser == "anonymous"

Tags == {"t1", "t2"}

RecipeNames == {"n1", "n2"}

RecipeIds == 1..MaxRecipes

\* Ingredient rows: two rows share a name and differ in their unit.
IngredientRows ==
    <<[name |-> "flour", measurement_unit |-> "g"],
      [name |-> "apple", measurement_unit |-> "g"],
      [name |-> "flour", measurement_unit |-> "kg"]>>

IngredientIds == DOMAIN IngredientRows

\* The collation of ingredient__name: the position of a name in the
\* database's ordering of names.
NameRank(n) == IF n = "apple" THEN 1 ELSE 2

VARIABLES
    recipes,   \* Recipe rows: pk -> [author, name]
    nextId,    \* the next Recipe pk
    tagsOf,    \* Recipe.tags (many-to-many): pk -> set of tags
    lines,     \* RecipeIngredient rows: [id, recipe, ingredient, amount]
    fav,       \* Favorite rows: number of rows per <<user, recipe>>
    cart,      \* ShoppingCart rows: number of rows per <<user, recipe>>
    last,      \* the request handled last and what the handler returned
    req,       \* the payload a client holds
    subs,      \* Subscription rows: number of rows per <<user, author>>
    reference, \* the Ingredient and Tag rows, by primary key
    users,     \* the User rows, by primary key
    inflight   \* per request slot: the request a worker is in the middle of

vars ==
    <<recipes, nextId, tagsOf, lines, fav, cart, last, req, subs, reference,
      users, inflight>>

(* ----------------------------- helpers --------------------------------- *)

RECURSIVE SumOver(_, _)
\* Sum('amount') over a set of rows, each weighted by w[row]
SumOver(S, w) ==
    IF S = {} THEN 0
    ELSE LET x == CHOOSE y \in S : TRUE
         IN  w[x] + SumOver(S \ {x}, w)

SeqsUpTo(S, n) == UNION {[1..k -> S] : k \in 0..n}

Range(s) == {s[k] : k \in DOMAIN s}

NoRows == [p \in Users \X RecipeIds |-> 0]

NoSubscriptions == [p \in Users \X Users |-> 0]

\* The slots of requests in progress (one per worker).
Requests == 1..MaxRequests

\* A slot without a request.
Idle ==
    [op |-> "none", method |-> "", user |-> AnonymousUser, pk |-> 0,
     stage |-> "idle"]

NoRequests == [r \in Requests |-> Idle]

\* The Ingredient and Tag tables as loaded.
ReferenceRows == [Ingredient |-> IngredientIds, Tag |-> Tags]

Response(op, method, user, pk, status, detail, body) ==
    [op |-> op, method |-> method, user |-> user, pk |-> pk,
     status |-> status, detail |-> detail, body |-> body]

NoResponse == Response("none", "", AnonymousUser, 0, "", "", <<>>)

\* A list field of a request: absent from the payload, or a list.
Given(items) == [given |-> TRUE, items |-> items]
Absent == [given |-> FALSE, items |-> <<>>]

NoRequest ==
    [name |-> "", text |-> "", cooking_time |-> 0,
     tags |-> Absent, ingredients |-> Absent]

(* ------------------------- request payloads ---------------------------- *)

\* One entry of the "ingredients" list of a payload.
Item(i, a) == [id |-> i, amount |-> a]

Payload(name, text, cooking_time, tags, ingredients) ==
    [name |-> name, text |-> text, cooking_time |-> cooking_time,
     tags |-> tags, ingredients |-> ingredients]

Distinct(s) == \A j, k \in DOMAIN s : j # k => s[j] # s[k]

\* The "ingredients" lists sent: absent, or up to MaxLen entries.  The
\* amounts range over 1..MaxAmount where no ingredient id repeats; a list
\* that repeats an id is sent with amount 1 throughout.
IngredientInputs ==
    {Absent} \cup
    UNION {IF Distinct(ids)
           THEN {Given([k \in DOMAIN ids |-> Item(ids[k], am[k])]) :
                    am \in [DOMAIN ids -> 1..MaxAmount]}
           ELSE {Given([k \in DOMAIN ids |-> Item(ids[k], 1)])} :
           ids \in SeqsUpTo(IngredientIds, MaxLen)}

TagInputs == {Absent} \cup {Given(t) : t \in SeqsUpTo(Tags, MaxLen)}

\* name, text and cooking_time of a payload: all present, or one empty.
ScalarInputs ==
    {<<n, "text", 1>> : n \in RecipeNames}
    \cup {<<"", "text", 1>>, <<"n1", "", 1>>, <<"n1", "text", 0>>}

\* The payloads of POST /recipes/.
CreateRequests ==
    {Payload(sc[1], sc[2], sc[3], t, i) :
        sc \in ScalarInputs, t \in TagInputs, i \in IngredientInputs}

(* ------------------------ recipe write path ---------------------------- *)

\* validate without the check of the tag list
validate_no_tag_check(obj) ==
    IF obj.name = "" THEN "name"
    ELSE IF obj.text = "" THEN "text"
    ELSE IF obj.cooking_time = 0 THEN "cooking_time"
    ELSE IF ~obj.ingredients.given \/ obj.ingredients.items = <<>>
         THEN "ingredients"
    ELSE IF Len(obj.ingredients.items)
              # Cardinality({it.id : it \in Range(obj.ingredients.items)})
         THEN "unique"
    ELSE "ok"

\* validate without the comparison of the id list with its set
validate_no_unique_check(obj) ==
    IF obj.name = "" THEN "name"
    ELSE IF obj.text = "" THEN "text"
    ELSE IF obj.cooking_time = 0 THEN "cooking_time"
    ELSE IF ~obj.tags.given \/ obj.tags.items = <<>> THEN "tags"
    ELSE IF ~obj.ingredients.given \/ obj.ingredients.items = <<>>
         THEN "ingredients"
    ELSE "ok"

\* CreateRecipeSerializer.validate: "ok" when it returns obj, else the
\* field or rule its ValidationError names.
validate(obj) ==
    IF obj.name = "" THEN "name"
    ELSE IF obj.text = "" THEN "text"
    ELSE IF obj.cooking_time = 0 THEN "cooking_time"
    ELSE IF ~obj.tags.given \/ obj.tags.items = <<>> THEN "tags"
    ELSE IF ~obj.ingredients.given \/ obj.ingredients.items = <<>>
         THEN "ingredients"
    ELSE IF Len(obj.ingredients.items)
              # Cardinality({it.id : it \in Range(obj.ingredients.items)})
         THEN "unique"
    ELSE "ok"

\* Primary keys that no Ingredient row and no Tag row has.
NoIngredient == Len(IngredientRows) + 1

NoTag == "t0"

\* the two fields declared as plain values, with no lookup of the rows
related_fields_unchecked(obj) == "ok"

\* The field step of is_valid for the two related fields:
\* tags = PrimaryKeyRelatedField(many=True, queryset=Tag.objects.all()) and
\* the id of each ingredients entry, a PrimaryKeyRelatedField with
\* queryset=Ingredient.objects.all().  A primary key without a row fails
\* the field with the ValidationError code does_not_exist.
related_fields(obj) ==
    IF \E t \in Range(obj.tags.items) : t \notin reference.Tag
    THEN "does_not_exist"
    ELSE IF \E it \in Range(obj.ingredients.items) :
                it.id \notin reference.Ingredient
         THEN "does_not_exist"
    ELSE "ok"

\* serializer.is_valid(raise_exception=True): the fields, then validate.
is_valid(obj) ==
    IF related_fields(obj) # "ok" THEN related_fields(obj) ELSE validate(obj)

\* CreateRecipeSerializer.create: Recipe.objects.create inserts the row,
\* then self.create_ingredients_tags is looked up; the class defines no
\* such method (its helper is named ingredient_tag_in_recipe), so the
\* lookup raises AttributeError and create ends there.  The row inserted
\* before it stays: it has no ingredient line and no tag.
create(u, obj) ==
    [recipes |-> recipes @@ (nextId :> [author |-> u, name |-> obj.name]),
     nextId  |-> nextId + 1,
     tagsOf  |-> tagsOf @@ (nextId :> {}),
     lines   |-> lines,
     raised  |-> "AttributeError"]

\* ReadRecipeSerializer whose two flags filter on the recipe alone
ReadRecipe_flags_of_any_user(pk, viewer) ==
    [id |-> pk,
     tags |-> tagsOf[pk],
     author |-> recipes[pk].author,
     ingredients |->
        {[id |-> l.id,
          name |-> IngredientRows[l.ingredient].name,
          measurement_unit |-> IngredientRows[l.ingredient].measurement_unit,
          amount |-> l.amount] : l \in {x \in lines : x.recipe = pk}},
     is_favorited |-> \E u \in Users : fav[<<u, pk>>] > 0,
     is_in_shopping_cart |-> \E u \in Users : cart[<<u, pk>>] > 0,
     name |-> recipes[pk].name]

\* ReadRecipeSerializer: the representation of recipe pk for a viewer.
\* Each ingredient line is a RecipeIngredient row through
\* RecipeIngredientSerializer, whose id field has source='id': the row's
\* own primary key.
ReadRecipe(pk, viewer) ==
    [id |-> pk,
     tags |-> tagsOf[pk],
     author |-> recipes[pk].author,
     ingredients |->
        {[id |-> l.id,
          name |-> IngredientRows[l.ingredient].name,
          measurement_unit |-> IngredientRows[l.ingredient].measurement_unit,
          amount |-> l.amount] : l \in {x \in lines : x.recipe = pk}},
     is_favorited |-> viewer \in Users /\ fav[<<viewer, pk>>] > 0,
     is_in_shopping_cart |-> viewer \in Users /\ cart[<<viewer, pk>>] > 0,
     name |-> recipes[pk].name]

\* POST /recipes/ by user u with payload obj: is_valid (validate), then
\* save (create), then the 201 response with the representation.
CreateRecipe(u, obj) ==
    LET err == is_valid(obj) IN
    IF err # "ok"
    THEN /\ last' = Response("create", "POST", u, 0, "ValidationError", err, <<>>)
         /\ UNCHANGED <<recipes, nextId, tagsOf, lines, fav, cart,
                        req, subs, reference, users, inflight>>
    ELSE /\ nextId <= MaxRecipes
         /\ LET r == create(u, obj) IN
            /\ recipes' = r.recipes
            /\ nextId' = r.nextId
            /\ tagsOf' = r.tagsOf
            /\ lines' = r.lines
            /\ last' = IF r.raised = ""
                       THEN Response("create", "POST", u, nextId, "201", "",
                                     ReadRecipe(nextId, u)')
                       ELSE Response("create", "POST", u, nextId, r.raised, "", <<>>)
         /\ UNCHANGED <<fav, cart, req, subs, reference, users, inflight>>

Create == \E u \in Users, obj \in CreateRequests : CreateRecipe(u, obj)

\* The client of SpecRoundTrip.
Client == "u1"

\* POST /recipes/ by the client with the payload it holds
CreateHeld == CreateRecipe(Client, req)

\* GET /recipes/{pk}/ (any viewer: IsAuthorOrReadOnly lets reads through)
Retrieve ==
    \E v \in users \cup {AnonymousUser}, pk \in 1..(MaxRecipes + 1) :
        /\ last' = IF pk \in DOMAIN recipes
                   THEN Response("retrieve", "GET", v, pk, "200", "",
                                 ReadRecipe(pk, v))
                   ELSE Response("retrieve", "GET", v, pk, "404", "", <<>>)
        /\ UNCHANGED <<recipes, nextId, tagsOf, lines, fav, cart,
                       req, subs, reference, users, inflight>>


(* ------------------ recipe update, delete and listing ------------------ *)

\* rest_framework.permissions.SAFE_METHODS, of which the routes here use GET
SafeMethods == {"GET"}

\* IsAuthorOrReadOnly.has_permission: reads are open to everyone, the
\* other methods to authenticated users.
has_permission(method, u) == method \in SafeMethods \/ u \in Users

\* IsAuthorOrReadOnly.has_object_permission: reads are open to everyone,
\* the other methods to the author of the recipe.
has_object_permission(method, u, pk) ==
    method \in SafeMethods \/ recipes[pk].author = u

\* the detail routes with a permission that lets every authenticated user
\* through
check_permissions_authenticated_only(method, u, pk) ==
    IF ~has_permission(method, u) THEN "401"
    ELSE IF pk \notin DOMAIN recipes THEN "404"
    ELSE "ok"

\* What a detail route of RecipeViewSet does before its handler runs, with
\* permission_classes = (IsAuthorOrReadOnly,): initial() checks
\* has_permission, get_object() looks the recipe up and checks
\* has_object_permission.
check_permissions(method, u, pk) ==
    IF ~has_permission(method, u) THEN "401"
    ELSE IF pk \notin DOMAIN recipes THEN "404"
    ELSE IF ~has_object_permission(method, u, pk) THEN "403"
    ELSE "ok"

\* The callers of the recipe routes.
Viewers == Users \cup {AnonymousUser}

\* CreateRecipeSerializer.update of recipe pk with the validated data obj:
\* the outcomes it can end with, each with the lines it leaves and the
\* exception it raised.  The new name, text and cooking_time are set on
\* the instance in memory; instance.save(), the last statement, is what
\* would write them.
\*   - validated_data.pop('tags') / pop('ingredients') raise KeyError for
\*     a key that is not there;
\*   - RecipeIngredient.objects.filter(recipe=instance,
\*     ingredient__in=instance.ingredients.all()).delete(): the name
\*     ingredients is declared twice on Recipe, as the ManyToManyField to
\*     Ingredient and as the related_name of RecipeIngredient.recipe.
\*     Read as the field, the filter matches every line of the recipe and
\*     they are deleted; read as the reverse relation, the filter is
\*     handed RecipeIngredient rows where it takes Ingredient rows and
\*     raises ValueError, deleting nothing;
\*   - self.ingredient_tag_in_recipe(instance, tags, ingredients) then
\*     calls a staticmethod of four parameters with three arguments:
\*     TypeError.  No line is inserted, no tag is touched, save() is not
\*     reached.
update(pk, obj) ==
    IF ~obj.tags.given \/ ~obj.ingredients.given
    THEN {[recipes |-> recipes, tagsOf |-> tagsOf, lines |-> lines,
           raised |-> "KeyError"]}
    ELSE {[recipes |-> recipes, tagsOf |-> tagsOf,
           lines |-> {l \in lines : l.recipe # pk},
           raised |-> "TypeError"],
          [recipes |-> recipes, tagsOf |-> tagsOf, lines |-> lines,
           raised |-> "ValueError"]}

\* PATCH /recipes/{pk}/ by u with payload obj (ModelViewSet.partial_update):
\* the permission checks, is_valid (validate), save (update), then the
\* 200 response with the representation.
PartialUpdate(u, pk, obj) ==
    LET check == check_permissions("PATCH", u, pk)
        err == is_valid(obj)
    IN  IF check # "ok"
        THEN /\ last' = Response("partial_update", "PATCH", u, pk, check, "",
                                 <<>>)
             /\ UNCHANGED <<recipes, nextId, tagsOf, lines, fav, cart, req,
                            subs, reference, users, inflight>>
        ELSE IF err # "ok"
        THEN /\ last' = Response("partial_update", "PATCH", u, pk,
                                 "ValidationError", err, <<>>)
             /\ UNCHANGED <<recipes, nextId, tagsOf, lines, fav, cart, req,
                            subs, reference, users, inflight>>
        ELSE \E o \in update(pk, obj) :
                /\ recipes' = o.recipes
                /\ tagsOf' = o.tagsOf
                /\ lines' = o.lines
                /\ last' = IF o.raised = ""
                           THEN Response("partial_update", "PATCH", u, pk,
                                         "200", "", ReadRecipe(pk, u)')
                           ELSE Response("partial_update", "PATCH", u, pk,
                                         o.raised, "", <<>>)
                /\ UNCHANGED <<nextId, fav, cart, req, subs, reference,
                               users, inflight>>

\* PATCH /recipes/{pk}/ with the payload held
Update == \E u \in Viewers, pk \in 1..nextId : PartialUpdate(u, pk, req)

\* PATCH /recipes/{pk}/ in worker r, up to the statement of update that
\* raises.  No transaction surrounds the handler (no ATOMIC_REQUESTS, no
\* transaction.atomic): the delete of update is committed on its own, and
\* the request is still in progress when other requests see its effect.
UpdateBegin(r) ==
    /\ inflight[r] = Idle
    /\ \E u \in Viewers, pk \in 1..nextId :
          LET check == check_permissions("PATCH", u, pk)
              err == is_valid(req)
              answer(status, detail) ==
                  /\ last' = Response("partial_update", "PATCH", u, pk,
                                      status, detail, <<>>)
                  /\ UNCHANGED <<lines, inflight>>
          IN  IF check # "ok" THEN answer(check, "")
              ELSE IF err # "ok" THEN answer("ValidationError", err)
              ELSE \E o \in update(pk, req) :
                      IF o.raised # "TypeError"
                      THEN answer(o.raised, "")
                      ELSE /\ lines' = o.lines
                           /\ inflight' =
                                 [inflight EXCEPT ![r] =
                                     [op |-> "partial_update",
                                      method |-> "PATCH", user |-> u,
                                      pk |-> pk, stage |-> "deleted"]]
                           /\ UNCHANGED last
    /\ UNCHANGED <<recipes, nextId, tagsOf, fav, cart, req, subs, reference,
                   users>>

\* The rest of the request of worker r: the call of
\* ingredient_tag_in_recipe raises and the request ends with its error.
UpdateFinish(r) ==
    /\ inflight[r].op = "partial_update"
    /\ last' = Response("partial_update", "PATCH", inflight[r].user,
                        inflight[r].pk, "TypeError", "", <<>>)
    /\ inflight' = [inflight EXCEPT ![r] = Idle]
    /\ UNCHANGED <<recipes, nextId, tagsOf, lines, fav, cart, req, subs,
                   reference, users>>

Restrict(f, S) == [x \in S |-> f[x]]

\* The rows of a (user, recipe) relation without those of recipe pk.
WithoutRecipe(rel, pk) ==
    [p \in DOMAIN rel |-> IF p[2] = pk THEN 0 ELSE rel[p]]

\* ShoppingCart.recipe, a ForeignKey that cascades as Favorite.recipe does
ShoppingCartCascade(rel, pk) == WithoutRecipe(rel, pk)

\* a delete that leaves the Favorite rows of the recipe in place
delete_keep_favorites(pk) ==
    [recipes |-> Restrict(recipes, DOMAIN recipes \ {pk}),
     tagsOf  |-> Restrict(tagsOf, DOMAIN tagsOf \ {pk}),
     lines   |-> {l \in lines : l.recipe # pk},
     fav     |-> fav,
     cart    |-> ShoppingCartCascade(cart, pk)]

\* Recipe.delete(): with the Recipe row go the rows whose ForeignKey to it
\* has on_delete=CASCADE (RecipeIngredient.recipe, Favorite.recipe, the
\* cart rows) and the rows of the tags relation.  Ingredient and Tag are
\* referenced by those rows, not referencing: they stay.
delete(pk) ==
    [recipes |-> Restrict(recipes, DOMAIN recipes \ {pk}),
     tagsOf  |-> Restrict(tagsOf, DOMAIN tagsOf \ {pk}),
     lines   |-> {l \in lines : l.recipe # pk},
     fav     |-> WithoutRecipe(fav, pk),
     cart    |-> ShoppingCartCascade(cart, pk)]

\* DELETE /recipes/{pk}/ (ModelViewSet.destroy)
Destroy ==
    \E u \in Viewers, pk \in 1..(MaxRecipes + 1) :
        LET check == check_permissions("DELETE", u, pk) IN
        IF check # "ok"
        THEN /\ last' = Response("destroy", "DELETE", u, pk, check, "", <<>>)
             /\ UNCHANGED <<recipes, nextId, tagsOf, lines, fav, cart, req,
                            subs, reference, users, inflight>>
        ELSE LET d == delete(pk) IN
             /\ recipes' = d.recipes
             /\ tagsOf' = d.tagsOf
             /\ lines' = d.lines
             /\ fav' = d.fav
             /\ cart' = d.cart
             /\ last' = Response("destroy", "DELETE", u, pk, "204", "", <<>>)
             /\ UNCHANGED <<nextId, req, subs, reference, users, inflight>>

RECURSIVE Descending(_)
\* Recipe.Meta.ordering = ('-id',)
Descending(S) ==
    IF S = {} THEN <<>>
    ELSE LET m == CHOOSE x \in S : \A y \in S : y <= x
         IN  <<m>> \o Descending(S \ {m})

\* GET /recipes/ (ModelViewSet.list, without query parameters)
List ==
    \E v \in Viewers :
        LET ids == Descending(DOMAIN recipes) IN
        /\ last' = Response("list", "GET", v, 0, "200", "",
                            [k \in DOMAIN ids |-> ReadRecipe(ids[k], v)])
        /\ UNCHANGED <<recipes, nextId, tagsOf, lines, fav, cart, req,
                       subs, reference, users, inflight>>

(* ------------------- favorite / shopping-cart toggles ------------------ *)

\* The rows of a (user, recipe) relation for u and pk; a pk beyond the
\* recipe keys has none.
RowCount(rel, u, pk) == IF pk \in RecipeIds THEN rel[<<u, pk>>] ELSE 0

\* RecipeSerializer: the summary returned by the toggles.
RecipeSummary(pk) == [id |-> pk, name |-> recipes[pk].name]

Outcome(rows, status, detail, body) ==
    [rows |-> rows, status |-> status, detail |-> detail, body |-> body]

\* Favorite.objects.create over a table without the constraint
FavoriteCreate_unconstrained(rel, u, pk) ==
    Outcome([rel EXCEPT ![<<u, pk>>] = @ + 1], "201", "", RecipeSummary(pk))

\* Favorite.objects.create under the UniqueConstraint
\* unique_favorite_recipe on (user, recipe).
FavoriteCreate(rel, u, pk) ==
    IF rel[<<u, pk>>] > 0
    THEN Outcome(rel, "IntegrityError", "unique_favorite_recipe", <<>>)
    ELSE Outcome([rel EXCEPT ![<<u, pk>>] = 1], "201", "",
                 RecipeSummary(pk))

\* ShoppingCart.objects.create over a table without the constraint
ShoppingCartCreate_unconstrained(rel, u, pk) ==
    Outcome([rel EXCEPT ![<<u, pk>>] = @ + 1], "201", "", RecipeSummary(pk))

\* ShoppingCart.objects.create; the relation is unique on (user, recipe).
ShoppingCartCreate(rel, u, pk) ==
    IF rel[<<u, pk>>] > 0
    THEN Outcome(rel, "IntegrityError", "unique (user, recipe)", <<>>)
    ELSE Outcome([rel EXCEPT ![<<u, pk>>] = 1], "201", "",
                 RecipeSummary(pk))

\* get_object_or_404(Model, recipe=recipe, user=request.user).delete()
GetOr404Delete(rel, u, pk, detail) ==
    IF rel[<<u, pk>>] = 0 THEN Outcome(rel, "404", "", <<>>)
    ELSE IF rel[<<u, pk>>] > 1
         THEN Outcome(rel, "MultipleObjectsReturned", "", <<>>)
    ELSE Outcome([rel EXCEPT ![<<u, pk>>] = 0], "204", detail, <<>>)

\* favorite whose DELETE branch deletes the rows of the user without the
\* filter on the recipe
favorite_delete_all_of_user(u, pk, method) ==
    IF pk \notin DOMAIN recipes THEN Outcome(fav, "404", "", <<>>)
    ELSE IF method = "POST"
         THEN IF fav[<<u, pk>>] = 0
              THEN FavoriteCreate(fav, u, pk)
              ELSE Outcome(fav, "400", "already in favorites", <<>>)
    ELSE IF fav[<<u, pk>>] = 0 THEN Outcome(fav, "404", "", <<>>)
    ELSE Outcome([p \in DOMAIN fav |-> IF p[1] = u THEN 0 ELSE fav[p]],
                 "204", "removed from favorites", <<>>)

\* favorite whose POST branch creates the row without asking whether one
\* exists
favorite_no_exists_check(u, pk, method) ==
    IF pk \notin DOMAIN recipes THEN Outcome(fav, "404", "", <<>>)
    ELSE IF method = "POST" THEN FavoriteCreate(fav, u, pk)
    ELSE GetOr404Delete(fav, u, pk, "removed from favorites")

\* favorite whose DELETE branch deletes whatever rows match and answers
\* 204 either way
favorite_delete_unchecked(u, pk, method) ==
    IF pk \notin DOMAIN recipes THEN Outcome(fav, "404", "", <<>>)
    ELSE IF method = "POST"
         THEN IF fav[<<u, pk>>] = 0
              THEN FavoriteCreate(fav, u, pk)
              ELSE Outcome(fav, "400", "already in favorites", <<>>)
    ELSE Outcome([fav EXCEPT ![<<u, pk>>] = 0], "204",
                 "removed from favorites", <<>>)

\* RecipeViewSet.favorite for request.user = u, kwargs['pk'] = pk.
favorite(u, pk, method) ==
    IF pk \notin DOMAIN recipes THEN Outcome(fav, "404", "", <<>>)
    ELSE IF method = "POST"
         THEN IF fav[<<u, pk>>] = 0
              THEN FavoriteCreate(fav, u, pk)
              ELSE Outcome(fav, "400", "already in favorites", <<>>)
    ELSE GetOr404Delete(fav, u, pk, "removed from favorites")

\* shopping_cart that answers a repeated POST the way favorite does
shopping_cart_conflict(u, pk, method) ==
    IF pk \notin DOMAIN recipes THEN Outcome(cart, "404", "", <<>>)
    ELSE IF method = "POST"
         THEN IF cart[<<u, pk>>] = 0
              THEN ShoppingCartCreate(cart, u, pk)
              ELSE Outcome(cart, "400", "already in cart", <<>>)
    ELSE GetOr404Delete(cart, u, pk, "removed from cart")

\* RecipeViewSet.shopping_cart for request.user = u, kwargs['pk'] = pk.
\* A POST that finds the row has no return statement on its path: the
\* method falls through the DELETE test and returns None.
shopping_cart(u, pk, method) ==
    IF pk \notin DOMAIN recipes THEN Outcome(cart, "404", "", <<>>)
    ELSE IF method = "POST"
         THEN IF cart[<<u, pk>>] = 0
              THEN ShoppingCartCreate(cart, u, pk)
              ELSE Outcome(cart, "None", "", <<>>)
    ELSE GetOr404Delete(cart, u, pk, "removed from cart")

Methods == {"POST", "DELETE"}

\* POST or DELETE /recipes/{pk}/favorite/
Favorite ==
    \E u \in Users, pk \in 1..(MaxRecipes + 1), m \in Methods :
        LET o == favorite(u, pk, m) IN
        /\ fav' = o.rows
        /\ last' = Response("favorite", m, u, pk, o.status, o.detail, o.body)
        /\ UNCHANGED <<recipes, nextId, tagsOf, lines, cart,
                       req, subs, reference, users, inflight>>

\* POST or DELETE /recipes/{pk}/shopping_cart/
ShoppingCart ==
    \E u \in Users, pk \in 1..(MaxRecipes + 1), m \in Methods :
        LET o == shopping_cart(u, pk, m) IN
        /\ cart' = o.rows
        /\ last' = Response("shopping_cart", m, u, pk, o.status, o.detail,
                            o.body)
        /\ UNCHANGED <<recipes, nextId, tagsOf, lines, fav,
                       req, subs, reference, users, inflight>>


(* ------------------- the toggles, statement by statement ---------------- *)

\* The queries a toggle handler makes before it writes, over the rows of
\* its relation: get_object_or_404(Recipe), then for POST the
\* filter(...).exists() test (missed answers a found row) and for DELETE
\* get_object_or_404(Model, recipe=recipe, user=request.user).  stage
\* "idle" means the handler has returned.
LookUp(rel, u, pk, method, missed) ==
    IF pk \notin DOMAIN recipes
    THEN [stage |-> "idle", status |-> "404", detail |-> ""]
    ELSE IF method = "POST"
         THEN IF rel[<<u, pk>>] = 0
              THEN [stage |-> "checked", status |-> "", detail |-> ""]
              ELSE missed
    ELSE IF rel[<<u, pk>>] = 0
         THEN [stage |-> "idle", status |-> "404", detail |-> ""]
    ELSE IF rel[<<u, pk>>] > 1
         THEN [stage |-> "idle", status |-> "MultipleObjectsReturned",
               detail |-> ""]
    ELSE [stage |-> "found", status |-> "", detail |-> ""]

\* instance.delete() on the row a request found: DELETE ... WHERE id = the
\* row's id.  When another request has deleted that row meanwhile (stage
\* "gone") the statement matches nothing and reports no error.
DeleteFound(rel, q, detail) ==
    IF q.stage = "found"
    THEN Outcome([rel EXCEPT ![<<q.user, q.pk>>] = @ - 1], "204", detail,
                 <<>>)
    ELSE Outcome(rel, "204", detail, <<>>)

\* The requests in progress once request r has written and returned: the
\* other requests that hold the row r deleted hold a row that is gone.
Settled(r, deleted) ==
    [x \in Requests |->
        IF x = r THEN Idle
        ELSE IF /\ deleted
                /\ inflight[x].stage = "found"
                /\ inflight[x].op = inflight[r].op
                /\ inflight[x].user = inflight[r].user
                /\ inflight[x].pk = inflight[r].pk
             THEN [inflight[x] EXCEPT !.stage = "gone"]
        ELSE inflight[x]]

\* RecipeViewSet.favorite up to its write, in worker r
FavoriteBegin(r) ==
    /\ inflight[r] = Idle
    /\ \E pk \in 1..(MaxRecipes + 1), m \in Methods :
          LET b == LookUp(fav, Client, pk, m,
                          [stage |-> "idle", status |-> "400",
                           detail |-> "already in favorites"])
          IN  IF b.stage = "idle"
              THEN /\ last' = Response("favorite", m, Client, pk, b.status,
                                       b.detail, <<>>)
                   /\ UNCHANGED inflight
              ELSE /\ inflight' =
                         [inflight EXCEPT ![r] =
                             [op |-> "favorite", method |-> m,
                              user |-> Client, pk |-> pk, stage |-> b.stage]]
                   /\ UNCHANGED last
    /\ UNCHANGED <<recipes, nextId, tagsOf, lines, fav, cart, req, subs,
                   reference, users>>

\* RecipeViewSet.favorite from its write on, in worker r
FavoriteFinish(r) ==
    /\ inflight[r].op = "favorite"
    /\ LET q == inflight[r]
           o == IF q.stage = "checked"
                THEN FavoriteCreate(fav, q.user, q.pk)
                ELSE DeleteFound(fav, q, "removed from favorites")
       IN  /\ fav' = o.rows
           /\ last' = Response("favorite", q.method, q.user, q.pk, o.status,
                               o.detail, o.body)
           /\ inflight' = Settled(r, q.stage = "found")
    /\ UNCHANGED <<recipes, nextId, tagsOf, lines, cart, req, subs,
                   reference, users>>

\* RecipeViewSet.shopping_cart up to its write, in worker r
ShoppingCartBegin(r) ==
    /\ inflight[r] = Idle
    /\ \E pk \in 1..(MaxRecipes + 1), m \in Methods :
          LET b == LookUp(cart, Client, pk, m,
                          [stage |-> "idle", status |-> "None",
                           detail |-> ""])
          IN  IF b.stage = "idle"
              THEN /\ last' = Response("shopping_cart", m, Client, pk,
                                       b.status, b.detail, <<>>)
                   /\ UNCHANGED inflight
              ELSE /\ inflight' =
                         [inflight EXCEPT ![r] =
                             [op |-> "shopping_cart", method |-> m,
                              user |-> Client, pk |-> pk, stage |-> b.stage]]
                   /\ UNCHANGED last
    /\ UNCHANGED <<recipes, nextId, tagsOf, lines, fav, cart, req, subs,
                   reference, users>>

\* RecipeViewSet.shopping_cart from its write on, in worker r
ShoppingCartFinish(r) ==
    /\ inflight[r].op = "shopping_cart"
    /\ LET q == inflight[r]
           o == IF q.stage = "checked"
                THEN ShoppingCartCreate(cart, q.user, q.pk)
                ELSE DeleteFound(cart, q, "removed from cart")
       IN  /\ cart' = o.rows
           /\ last' = Response("shopping_cart", q.method, q.user, q.pk,
                               o.status, o.detail, o.body)
           /\ inflight' = Settled(r, q.stage = "found")
    /\ UNCHANGED <<recipes, nextId, tagsOf, lines, fav, req, subs,
                   reference, users>>

(* --------------------------- subscriptions ----------------------------- *)

\* A primary key that no User row has.
NoUser == "u0"

\* The Subscription rows of subscriber u for the user with primary key pk.
SubscriptionCount(u, pk) == IF pk \in Users THEN subs[<<u, pk>>] ELSE 0

\* SubscribeSerialiser(author).data: is_subscribed is computed when the
\* data is read, from the rows in rel.
SubscribeData(rel, u, author) ==
    [id |-> author,
     is_subscribed |-> u # author /\ rel[<<u, author>>] > 0,
     recipes_count |->
        Cardinality({pk \in DOMAIN recipes : recipes[pk].author = author})]

\* Subscription.objects.create under the UniqueConstraint unique_subscribe
\* on (user, author).
SubscriptionCreate(rel, u, author) ==
    IF rel[<<u, author>>] > 0
    THEN Outcome(rel, "IntegrityError", "unique_subscribe", <<>>)
    ELSE LET after == [rel EXCEPT ![<<u, author>>] = 1]
         IN  Outcome(after, "201", "", SubscribeData(after, u, author))

\* subscribe whose DELETE branch deletes whatever rows match and answers
\* 204 either way
subscribe_delete_unchecked(u, pk, method, named) ==
    IF pk \notin Users THEN Outcome(subs, "404", "", <<>>)
    ELSE IF method = "POST"
         THEN IF ~named
              THEN Outcome(subs, "ValidationError", "first_name", <<>>)
              ELSE SubscriptionCreate(subs, u, pk)
    ELSE Outcome([subs EXCEPT ![<<u, pk>>] = 0], "204", "unsubscribed", <<>>)

\* UserViewSet.subscribe for request.user = u, kwargs['pk'] = pk.  named
\* tells whether request.data carries first_name and last_name, the two
\* writable fields of SubscribeSerialiser, both required by is_valid.
\* The serializer has no validate method and the view asks neither
\* whether u is the author nor whether the row exists.
subscribe(u, pk, method, named) ==
    IF pk \notin Users THEN Outcome(subs, "404", "", <<>>)
    ELSE IF method = "POST"
         THEN IF ~named
              THEN Outcome(subs, "ValidationError", "first_name", <<>>)
              ELSE SubscriptionCreate(subs, u, pk)
    ELSE GetOr404Delete(subs, u, pk, "unsubscribed")

\* POST or DELETE /users/{pk}/subscribe/
Subscribe ==
    \E u \in Users, pk \in Users \cup {NoUser}, m \in Methods,
       named \in BOOLEAN :
        LET o == subscribe(u, pk, m, named) IN
        /\ subs' = o.rows
        /\ last' = Response("subscribe", m, u, pk, o.status, o.detail, o.body)
        /\ UNCHANGED <<recipes, nextId, tagsOf, lines, fav, cart, req,
                       reference, users, inflight>>

\* The value of a request without the recipes_limit query parameter.
NoLimit == 0

\* The recipes of author a, by Recipe.Meta.ordering ('-id').
RecipesOf(a) ==
    Descending({pk \in DOMAIN recipes : recipes[pk].author = a})

\* SubscriptionSerialiser for author a as seen by u, once get_recipes has
\* returned rs.
SubscriptionData(u, a, rs) ==
    [id |-> a,
     is_subscribed |-> u # a /\ subs[<<u, a>>] > 0,
     recipes |-> [k \in DOMAIN rs |-> RecipeSummary(rs[k])],
     recipes_count |-> Len(RecipesOf(a))]

\* SubscriptionSerialiser.get_recipes: without a limit, all recipes of the
\* author.  With one, recipes[int:(limit)] slices the queryset from the
\* type int to the string limit; the queryset compares the start of the
\* slice with 0 and that raises TypeError.
get_recipes(a, limit) ==
    IF limit = NoLimit
    THEN [raised |-> "", recipes |-> RecipesOf(a)]
    ELSE [raised |-> "TypeError", recipes |-> <<>>]

\* UserViewSet.subscriptions for request.user = u:
\* User.objects.filter(subscribing__user=u), each through
\* SubscriptionSerialiser.
subscriptions(u, limit) ==
    LET authors == {a \in users : subs[<<u, a>>] > 0}
    IN  IF \E a \in authors : get_recipes(a, limit).raised # ""
        THEN Outcome(subs, "TypeError", "", {})
        ELSE Outcome(subs, "200", "",
                     {SubscriptionData(u, a, get_recipes(a, limit).recipes) :
                         a \in authors})

\* GET /users/subscriptions/ with or without ?recipes_limit=
Subscriptions ==
    \E u \in Users, limit \in {NoLimit} \cup 1..MaxRecipes :
        LET o == subscriptions(u, limit) IN
        /\ last' = Response("subscriptions", "GET", u, limit, o.status,
                            o.detail, o.body)
        /\ UNCHANGED <<recipes, nextId, tagsOf, lines, fav, cart, req, subs,
                       reference, users, inflight>>

(* ---------------------------- user deletion ---------------------------- *)

\* The staff user of the admin site.
Staff == "staff"

\* The author of a recipe whose author has been deleted (NULL).
Null == "null"

\* The rows of rel whose user is not u (on_delete=CASCADE of the user key).
WithoutUser(rel, u) == [p \in DOMAIN rel |-> IF p[1] = u THEN 0 ELSE rel[p]]

\* The cart rows go with their user as they go with their recipe.
ShoppingCartCascadeUser(rel, u) == WithoutUser(rel, u)

\* user.delete() whose cascade follows Subscription.user and not
\* Subscription.author
delete_user_as_subscriber_only(u) ==
    [users   |-> users \ {u},
     recipes |-> [pk \in DOMAIN recipes |->
                     IF recipes[pk].author = u
                     THEN [recipes[pk] EXCEPT !.author = Null]
                     ELSE recipes[pk]],
     fav     |-> WithoutUser(fav, u),
     cart    |-> ShoppingCartCascadeUser(cart, u),
     subs    |-> WithoutUser(subs, u),
     deleted |-> [Favorite |-> SumOver({p \in DOMAIN fav : p[1] = u}, fav),
                  Subscription |->
                     SumOver({p \in DOMAIN subs : p[1] = u}, subs)]]

\* user.delete(): the collector follows the foreign keys to User.
\* Recipe.author is on_delete=SET_NULL: the recipes stay, without author.
\* Favorite.user, Subscription.user and Subscription.author are
\* on_delete=CASCADE: those rows go.  deleted is the count of rows per
\* model that delete() returns.
delete_user(u) ==
    [users   |-> users \ {u},
     recipes |-> [pk \in DOMAIN recipes |->
                     IF recipes[pk].author = u
                     THEN [recipes[pk] EXCEPT !.author = Null]
                     ELSE recipes[pk]],
     fav     |-> WithoutUser(fav, u),
     cart    |-> ShoppingCartCascadeUser(cart, u),
     subs    |-> [p \in DOMAIN subs |->
                     IF p[1] = u \/ p[2] = u THEN 0 ELSE subs[p]],
     deleted |-> [Favorite |-> SumOver({p \in DOMAIN fav : p[1] = u}, fav),
                  Subscription |->
                     SumOver({p \in DOMAIN subs : p[1] = u \/ p[2] = u},
                             subs)]]

\* The delete view of UserAdmin, confirmed by the staff user, for user u
DeleteUser ==
    \E u \in users :
        LET d == delete_user(u) IN
        /\ users' = d.users
        /\ recipes' = d.recipes
        /\ fav' = d.fav
        /\ cart' = d.cart
        /\ subs' = d.subs
        /\ last' = Response("delete_user", "POST", Staff, u, "302", "",
                            d.deleted)
        /\ UNCHANGED <<nextId, tagsOf, lines, req, reference, inflight>>

(* --------------------------- shopping list ----------------------------- *)

IngredientName(l) == IngredientRows[l.ingredient].name

IngredientUnit(l) == IngredientRows[l.ingredient].measurement_unit

\* the query filtered on the cart rows of any user instead of those of u
cart_join_any_user(u) ==
    {[line |-> l, n |-> 1] :
        l \in {x \in lines : \E v \in Users : cart[<<v, x.recipe>>] > 0}}

\* the query without its filter on the cart rows of u: every line
cart_join_unfiltered(u) == {[line |-> l, n |-> 1] : l \in lines}

\* RecipeIngredient.objects.filter(recipe__carts__user=u): the join of
\* the lines with the cart rows of u; a line comes once per cart row of
\* its recipe.
cart_join(u) ==
    {[line |-> l, n |-> cart[<<u, l.recipe>>]] :
        l \in {x \in lines : cart[<<u, x.recipe>>] > 0}}

\* the query without annotate(Sum): one row per joined line
annotate_each_line(u) ==
    {[name |-> IngredientName(j.line),
      measurement_unit |-> IngredientUnit(j.line),
      result_sum_ingr |-> j.line.amount] : j \in cart_join(u)}

\* .values('ingredient__name', 'ingredient__measurement_unit')
\* .annotate(result_sum_ingr=Sum('amount')): one row per (name, unit) of
\* the joined lines, with the sum of their amounts.
annotate_sum(u) ==
    LET J == cart_join(u)
        keys == {<<IngredientName(j.line), IngredientUnit(j.line)>> : j \in J}
    IN  {[name |-> k[1],
          measurement_unit |-> k[2],
          result_sum_ingr |->
             LET G == {j \in J : /\ IngredientName(j.line) = k[1]
                                 /\ IngredientUnit(j.line) = k[2]}
             IN  SumOver(G, [j \in G |-> j.line.amount * j.n])] : k \in keys}

Orderings(rows) ==
    {s \in [1..Cardinality(rows) -> rows] : Range(s) = rows}

\* the query without order_by: the rows in whatever order they come
any_order(rows) == Orderings(rows)

\* .order_by('ingredient__name'): the rows by name; rows of one name come
\* in an order the database picks.
order_by_name(rows) ==
    {s \in Orderings(rows) :
        \A j, k \in DOMAIN s :
            j < k => NameRank(s[j].name) <= NameRank(s[k].name)}

HeaderToken == [kind |-> "header", text |-> "shopping list:"]

NewLine == [kind |-> "newline"]

\* '{} - {} {}.'.format(name, sum, unit)
format_line(row) ==
    [kind |-> "line", name |-> row.name, amount |-> row.result_sum_ingr,
     measurement_unit |-> row.measurement_unit]

RECURSIVE join(_, _)
\* sep.join(list)
join(sep, list) ==
    IF list = <<>> THEN <<>>
    ELSE IF Len(list) = 1 THEN <<list[1]>>
    ELSE <<list[1], sep>> \o join(sep, Tail(list))

\* 'header:\n' + '\n'.join(list_of_ingredients), as its pieces in order
response_body(rows) ==
    <<HeaderToken, NewLine>>
        \o join(NewLine, [k \in DOMAIN rows |-> format_line(rows[k])])

\* GET /recipes/download_shopping_cart/ by user u
DownloadShoppingCart ==
    \E u \in Users :
        \E rows \in order_by_name(annotate_sum(u)) :
            /\ last' = Response("download_shopping_cart", "GET", u, 0, "200",
                                "", response_body(rows))
            /\ UNCHANGED <<recipes, nextId, tagsOf, lines, fav, cart,
                           req, subs, reference, users, inflight>>

(* --------------------------- specifications ---------------------------- *)

EmptyStore ==
    /\ recipes = <<>>
    /\ nextId = 1
    /\ tagsOf = <<>>
    /\ lines = {}
    /\ fav = NoRows
    /\ cart = NoRows
    /\ subs = NoSubscriptions
    /\ reference = ReferenceRows
    /\ users = Users
    /\ inflight = NoRequests

\* The recipe write path from an empty database.
Init ==
    /\ EmptyStore
    /\ last = NoResponse
    /\ req = NoRequest

Next == Create

Spec == Init /\ [][Next]_vars

\* A database that holds one recipe entered through the admin site
\* (RecipeAdmin with its RecipeIngredientInline).
SeededStore ==
    /\ recipes = (1 :> [author |-> "u1", name |-> "seed"])
    /\ nextId = 2
    /\ tagsOf = (1 :> {"t1"})
    /\ lines = {[id |-> 1, recipe |-> 1, ingredient |-> 1, amount |-> 1]}
    /\ fav = NoRows
    /\ cart = NoRows
    /\ subs = NoSubscriptions
    /\ reference = ReferenceRows
    /\ users = Users
    /\ inflight = NoRequests

\* One client that holds a payload, posts it and reads recipes back.
InitRoundTrip ==
    /\ EmptyStore \/ SeededStore
    /\ last = NoResponse
    /\ req \in CreateRequests

NextRoundTrip == CreateHeld \/ Retrieve

SpecRoundTrip == InitRoundTrip /\ [][NextRoundTrip]_vars

\* The recipes 1..n, as rows without lines or tags.
RecipeRows(n) == [pk \in 1..n |-> [author |-> "u1", name |-> ToString(pk)]]

\* The toggles over a database that holds some recipes.
InitEngage ==
    /\ \E n \in 1..MaxRecipes :
          /\ recipes = RecipeRows(n)
          /\ nextId = n + 1
          /\ tagsOf = [pk \in 1..n |-> {}]
    /\ lines = {}
    /\ fav = NoRows
    /\ cart = NoRows
    /\ subs = NoSubscriptions
    /\ reference = ReferenceRows
    /\ users = Users
    /\ inflight = NoRequests
    /\ last = NoResponse
    /\ req = NoRequest

NextEngage == Favorite \/ ShoppingCart

SpecEngage == InitEngage /\ [][NextEngage]_vars

\* A RecipeIngredient row of recipe pk; the rows are keyed in the order
\* of (recipe, ingredient).
LineRow(pk, i, a) ==
    [id |-> (pk - 1) * Len(IngredientRows) + i, recipe |-> pk,
     ingredient |-> i, amount |-> a]

\* The sets of up to MaxLines lines over the recipes 1..n, at most one per
\* (recipe, ingredient) (the UniqueConstraint unique_ingredient_in_recipe).
LineSets(n) ==
    UNION {{{LineRow(slot[1], slot[2], am[slot]) : slot \in slots} :
               am \in [slots -> 1..MaxAmount]} :
           slots \in {S \in SUBSET ((1..n) \X IngredientIds) :
                         Cardinality(S) <= MaxLines}}

\* The shopping list over a database that holds recipes with their lines
\* and carts with at most one row per (user, recipe).
InitCart ==
    /\ recipes = RecipeRows(MaxRecipes)
    /\ nextId = MaxRecipes + 1
    /\ tagsOf = [pk \in 1..MaxRecipes |-> {"t1"}]
    /\ lines \in LineSets(MaxRecipes)
    /\ fav = NoRows
    /\ cart \in [Users \X RecipeIds -> {0, 1}]
    /\ subs = NoSubscriptions
    /\ reference = ReferenceRows
    /\ users = Users
    /\ inflight = NoRequests
    /\ last = NoResponse
    /\ req = NoRequest

NextCart == DownloadShoppingCart

SpecCart == InitCart /\ [][NextCart]_vars

\* Subscribing and unsubscribing over a database without recipes.
InitSubscribe ==
    /\ EmptyStore
    /\ last = NoResponse
    /\ req = NoRequest

NextSubscribe == Subscribe

SpecSubscribe == InitSubscribe /\ [][NextSubscribe]_vars

\* The author of the recipes of StoreOf: u1 and u2 in turn.
AuthorOf(pk) == IF pk % 2 = 1 THEN "u1" ELSE "u2"

\* A database that holds the recipes 1..n, each with tag t1 and two
\* ingredient lines, each in the favorites and in the cart of every user.
StoreOf(n) ==
    /\ recipes = [pk \in 1..n |-> [author |-> AuthorOf(pk),
                                   name |-> ToString(pk)]]
    /\ nextId = n + 1
    /\ tagsOf = [pk \in 1..n |-> {"t1"}]
    /\ lines = UNION {{LineRow(pk, 1, 1), LineRow(pk, 2, 2)} : pk \in 1..n}
    /\ fav = [p \in Users \X RecipeIds |-> IF p[2] <= n THEN 1 ELSE 0]
    /\ cart = [p \in Users \X RecipeIds |-> IF p[2] <= n THEN 1 ELSE 0]
    /\ subs = NoSubscriptions
    /\ reference = ReferenceRows
    /\ users = Users
    /\ inflight = NoRequests

\* The payloads of PATCH /recipes/{pk}/: the scalars present, or the name
\* missing.
UpdateRequests ==
    {Payload(sc[1], sc[2], sc[3], t, i) :
        sc \in {<<"n2", "text", 1>>, <<"", "text", 1>>},
        t \in TagInputs, i \in IngredientInputs}

\* Updates of the recipes by a client that holds a payload.
InitUpdate ==
    /\ StoreOf(MaxRecipes)
    /\ last = NoResponse
    /\ req \in UpdateRequests

NextUpdate == Update

SpecUpdate == InitUpdate /\ [][NextUpdate]_vars

\* The payloads a client of SpecManage holds: a complete one, and one
\* without tags.
ManageRequests ==
    {Payload("n2", "text", 1, Given(<<"t2">>), Given(<<Item(3, 1)>>)),
     Payload("n2", "text", 1, Absent, Given(<<Item(3, 1)>>))}

\* Reads, updates and deletes of recipes by their authors and by others.
InitManage ==
    /\ StoreOf(MaxRecipes)
    /\ last = NoResponse
    /\ req \in ManageRequests

NextManage == Update \/ Destroy \/ Retrieve \/ List

SpecManage == InitManage /\ [][NextManage]_vars

\* The toggles and the recipe reads.
NextRead == Favorite \/ ShoppingCart \/ Retrieve

SpecRead == InitEngage /\ [][NextRead]_vars

\* The payloads whose tags and ingredient ids are drawn from the primary
\* keys of the two tables and one key beyond each.
LookupRequests ==
    {Payload("n1", "text", 1, Given(t),
             Given([k \in DOMAIN ids |-> Item(ids[k], 1)])) :
        t \in SeqsUpTo(Tags \cup {NoTag}, MaxLen) \ {<<>>},
        ids \in {x \in SeqsUpTo(IngredientIds \cup {NoIngredient}, MaxLen) :
                    x # <<>> /\ Distinct(x)}}

\* One client that posts a payload whose references may not exist.
InitLookup ==
    /\ EmptyStore \/ SeededStore
    /\ last = NoResponse
    /\ req \in LookupRequests

NextLookup == CreateHeld

SpecLookup == InitLookup /\ [][NextLookup]_vars

\* Subscribing and listing the subscriptions over a database that holds
\* recipes of both users.
InitFollow ==
    /\ StoreOf(MaxRecipes)
    /\ last = NoResponse
    /\ req = NoRequest

NextFollow == Subscribe \/ Subscriptions

SpecFollow == InitFollow /\ [][NextFollow]_vars

\* The toggles over a database whose recipes have lines and are in every
\* favorites list and cart.
InitShop ==
    /\ StoreOf(MaxRecipes)
    /\ last = NoResponse
    /\ req = NoRequest

NextShop == Favorite \/ ShoppingCart

SpecShop == InitShop /\ [][NextShop]_vars

\* The carts, the shopping list and recipe deletion over the same
\* database.
NextList == ShoppingCart \/ DownloadShoppingCart \/ Destroy

SpecList == InitShop /\ [][NextList]_vars

\* Favorite requests of one user served by concurrent workers.
NextFavoriteRace ==
    \/ \E r \in Requests : FavoriteBegin(r)
    \/ \E r \in Requests : FavoriteFinish(r)

SpecFavoriteRace == InitShop /\ [][NextFavoriteRace]_vars

\* Cart requests of one user served by concurrent workers, and downloads
\* of the shopping list.
NextCartRace ==
    \/ \E r \in Requests : ShoppingCartBegin(r)
    \/ \E r \in Requests : ShoppingCartFinish(r)
    \/ DownloadShoppingCart

SpecCartRace == InitShop /\ [][NextCartRace]_vars

\* Updates served by concurrent workers, and reads of the recipes.
NextUpdateRace ==
    \/ \E r \in Requests : UpdateBegin(r)
    \/ \E r \in Requests : UpdateFinish(r)
    \/ Retrieve

SpecUpdateRace == InitManage /\ [][NextUpdateRace]_vars

\* Deletions of users over a database that holds recipes of both users
\* and any favorites and subscriptions, and reads of the recipes.
InitAdmin ==
    /\ recipes = [pk \in 1..MaxRecipes |-> [author |-> AuthorOf(pk),
                                            name |-> ToString(pk)]]
    /\ nextId = MaxRecipes + 1
    /\ tagsOf = [pk \in 1..MaxRecipes |-> {"t1"}]
    /\ lines = UNION {{LineRow(pk, 1, 1), LineRow(pk, 2, 2)} :
                         pk \in 1..MaxRecipes}
    /\ fav \in [Users \X RecipeIds -> {0, 1}]
    /\ cart = [p \in Users \X RecipeIds |-> 1]
    /\ subs \in [Users \X Users -> {0, 1}]
    /\ reference = ReferenceRows
    /\ users = Users
    /\ inflight = NoRequests
    /\ last = NoResponse
    /\ req = NoRequest

NextAdmin == DeleteUser \/ Retrieve

SpecAdmin == InitAdmin /\ [][NextAdmin]_vars

(* ------------------------ claims: recipe create ------------------------ *)

NoItems(list) == ~list.given \/ list.items = <<>>

RepeatsId(list) ==
    \E j, k \in DOMAIN list.items :
        j # k /\ list.items[j].id = list.items[k].id

\* A valid recipe-create input: every scalar present, a non-empty tag
\* list, a non-empty ingredient list with pairwise distinct ids.
ValidCreateInput(obj) ==
    /\ obj.name # "" /\ obj.text # "" /\ obj.cooking_time >= 1
    /\ ~NoItems(obj.tags)
    /\ ~NoItems(obj.ingredients)
    /\ ~RepeatsId(obj.ingredients)

LinesOf(pk) == {l \in lines : l.recipe = pk}

SuppliedPairs(obj) ==
    {<<it.id, it.amount>> : it \in Range(obj.ingredients.items)}

\* C1: after Create of a valid input, the stored recipe has exactly the
\* supplied tag set and exactly one ingredient line per supplied
\* (ingredient id, amount) pair, none extra and none twice.
C1_CreateStoresSupplied ==
    (last.op = "create" /\ ValidCreateInput(req)) =>
        /\ last.pk \in DOMAIN recipes
        /\ tagsOf[last.pk] = Range(req.tags.items)
        /\ {<<l.ingredient, l.amount>> : l \in LinesOf(last.pk)}
              = SuppliedPairs(req)
        /\ Cardinality(LinesOf(last.pk)) = Len(req.ingredients.items)

\* C2: Create with an empty or missing tag list, or an empty or missing
\* ingredient list, fails with ValidationError and adds no Recipe row, no
\* ingredient line and no tag association.
C2_EmptyListsRejected ==
    [][(last'.op = "create"
          /\ (NoItems(req.tags) \/ NoItems(req.ingredients)))
       => /\ last'.status = "ValidationError"
          /\ recipes' = recipes
          /\ lines' = lines
          /\ tagsOf' = tagsOf]_vars

C2_Witness ==
    /\ last.op = "create"
    /\ last.status = "ValidationError"
    /\ req.name # "" /\ req.text # "" /\ req.cooking_time >= 1
    /\ req.tags = Given(<<>>)
    /\ ~NoItems(req.ingredients)
    /\ recipes # <<>>

\* C3: Create whose ingredient list holds the same ingredient id more than
\* once fails with ValidationError and adds no Recipe row and no
\* ingredient line.
C3_RepeatedIngredientRejected ==
    [][(last'.op = "create" /\ RepeatsId(req.ingredients))
       => /\ last'.status = "ValidationError"
          /\ recipes' = recipes
          /\ lines' = lines]_vars

C3_Witness ==
    /\ last.op = "create"
    /\ last.status = "ValidationError"
    /\ last.detail = "unique"
    /\ RepeatsId(req.ingredients)
    /\ recipes # <<>>

\* The recipes of the store that Create made from the held payload.
CreatedFromReq(pk) == pk \in DOMAIN recipes /\ recipes[pk].name = req.name

\* C4: round trip: a read of a created recipe returns the tag set that was
\* written and, keyed by ingredient id, the amounts that were written.
C4_ReadReturnsWritten ==
    (/\ last.op = "retrieve"
     /\ last.status = "200"
     /\ ValidCreateInput(req)
     /\ CreatedFromReq(last.pk)) =>
        /\ last.body.tags = Range(req.tags.items)
        /\ {<<x.id, x.amount>> : x \in last.body.ingredients}
              = SuppliedPairs(req)

\* C5: Create is all-or-nothing: a Create that does not end with its 201
\* response leaves no Recipe row, no line and no tag association behind.
C5_CreateAllOrNothing ==
    [][(last'.op = "create" /\ last'.status # "201")
       => /\ recipes' = recipes
          /\ lines' = lines
          /\ tagsOf' = tagsOf]_vars

(* --------------------------- claims: toggles --------------------------- *)

\* C6: adding a favorite that already exists fails with 400 and leaves
\* exactly one Favorite(U, R) row; no state reached by add / remove
\* requests holds two Favorite rows of one (user, recipe).
C6_FavoriteTwiceConflict ==
    /\ [](\A p \in Users \X RecipeIds : fav[p] <= 1)
    /\ [][(/\ last'.op = "favorite"
           /\ last'.method = "POST"
           /\ RowCount(fav, last'.user, last'.pk) >= 1)
          => /\ last'.status = "400"
             /\ fav' = fav
             /\ fav'[<<last'.user, last'.pk>>] = 1]_vars

C6_Witness ==
    /\ last.op = "favorite"
    /\ last.method = "POST"
    /\ last.status = "400"
    /\ fav[<<last.user, last.pk>>] = 1

\* C7: adding to the cart a recipe that is already in it creates no row
\* and reports no error: the handler returns nothing and the cart relation
\* is unchanged, where the favorite path answers 400.
C7_CartTwiceFallsThrough ==
    /\ [][(/\ last'.op = "shopping_cart"
           /\ last'.method = "POST"
           /\ RowCount(cart, last'.user, last'.pk) >= 1)
          => /\ last'.status = "None"
             /\ last'.detail = ""
             /\ cart' = cart]_vars
    /\ [][(/\ last'.op = "favorite"
           /\ last'.method = "POST"
           /\ RowCount(fav, last'.user, last'.pk) >= 1)
          => last'.status = "400"]_vars

C7_Witness ==
    /\ last.op = "shopping_cart"
    /\ last.method = "POST"
    /\ last.status = "None"
    /\ cart[<<last.user, last.pk>>] = 1

\* C8: removing a favorite (a cart entry) that does not exist fails with
\* 404 and leaves both relations unchanged; removing one that exists
\* deletes exactly that row.
C8_RemoveMissingNotFound ==
    [][(last'.op \in {"favorite", "shopping_cart"} /\ last'.method = "DELETE")
       => LET u == last'.user
              pk == last'.pk
              rel == IF last'.op = "favorite" THEN fav ELSE cart
              relAfter == IF last'.op = "favorite" THEN fav' ELSE cart'
              other == IF last'.op = "favorite" THEN cart ELSE fav
              otherAfter == IF last'.op = "favorite" THEN cart' ELSE fav'
          IN  IF RowCount(rel, u, pk) = 0
              THEN /\ last'.status = "404"
                   /\ fav' = fav
                   /\ cart' = cart
              ELSE /\ last'.status = "204"
                   /\ relAfter = [rel EXCEPT ![<<u, pk>>] = @ - 1]
                   /\ relAfter[<<u, pk>>] = 0
                   /\ otherAfter = other]_vars

C8_Witness ==
    /\ last.op = "favorite"
    /\ last.method = "DELETE"
    /\ last.status = "404"
    /\ last.pk \in DOMAIN recipes
    /\ \E p \in Users \X RecipeIds : fav[p] = 1
    /\ \E p \in Users \X RecipeIds : cart[p] = 1

(* ------------------------ claims: shopping list ------------------------ *)

\* The ingredient lines of a response body, in order.
LinesIn(body) == SelectSeq(body, LAMBDA t : t.kind = "line")

\* The ingredient lines of the recipes in the cart of u.
LinesInCartOf(u) == {l \in lines : cart[<<u, l.recipe>>] >= 1}

\* C9: the shopping list of U has exactly one line per distinct
\* (ingredient name, measurement unit) among the ingredient lines of the
\* recipes in U's cart, and its amount is the sum of the amounts of the
\* lines of that group.
C9_OneLinePerGroupWithSum ==
    (last.op = "download_shopping_cart") =>
        LET L == LinesInCartOf(last.user)
            out == LinesIn(last.body)
        IN  /\ \A l \in L :
                  LET G == {x \in L : /\ IngredientName(x) = IngredientName(l)
                                      /\ IngredientUnit(x) = IngredientUnit(l)}
                      hits == {k \in DOMAIN out :
                                  /\ out[k].name = IngredientName(l)
                                  /\ out[k].measurement_unit = IngredientUnit(l)}
                  IN  /\ Cardinality(hits) = 1
                      /\ \A k \in hits :
                            out[k].amount = SumOver(G, [x \in G |-> x.amount])
            /\ \A k \in DOMAIN out :
                  \E l \in L : /\ out[k].name = IngredientName(l)
                               /\ out[k].measurement_unit = IngredientUnit(l)

\* flour 1 g in recipe 1 and flour 2 g in recipe 2, both in the cart:
\* one flour line of 3 g
C9_Witness ==
    /\ last.op = "download_shopping_cart"
    /\ \E l1, l2 \in LinesInCartOf(last.user) :
          /\ l1.recipe # l2.recipe
          /\ l1.ingredient = 1 /\ l2.ingredient = 1
          /\ l1.amount = 1 /\ l2.amount = 2
    /\ \E k \in DOMAIN last.body :
          last.body[k] = [kind |-> "line", name |-> "flour", amount |-> 3,
                          measurement_unit |-> "g"]

\* C10: the body starts with its single header line, and the ingredient
\* lines after it come in ascending order of ingredient name.
C10_HeaderThenLinesByName ==
    (last.op = "download_shopping_cart") =>
        LET body == last.body
            out == LinesIn(body)
        IN  /\ body[1] = HeaderToken
            /\ \A k \in DOMAIN body : body[k].kind = "header" => k = 1
            /\ \A j, k \in DOMAIN out :
                  j < k => NameRank(out[j].name) <= NameRank(out[k].name)

C10_Witness ==
    /\ last.op = "download_shopping_cart"
    /\ LET out == LinesIn(last.body)
       IN  /\ Len(out) >= 2
           /\ out[1].name = "apple"
           /\ out[2].name = "flour"
           /\ \E l1, l2 \in LinesInCartOf(last.user) :
                 /\ l1.ingredient = 1 /\ l2.ingredient = 2
                 /\ l1.id < l2.id

\* C11: when the cart of U holds no recipe, the shopping list is the header
\* line alone and has no ingredient line.
C11_EmptyCartHeaderOnly ==
    (/\ last.op = "download_shopping_cart"
     /\ \A pk \in RecipeIds : cart[<<last.user, pk>>] = 0) =>
        /\ last.body = <<HeaderToken, NewLine>>
        /\ LinesIn(last.body) = <<>>

\* the cart of the requesting user is empty while the database holds
\* ingredient lines and another user has their recipe in the cart
C11_Witness ==
    /\ last.op = "download_shopping_cart"
    /\ \A pk \in RecipeIds : cart[<<last.user, pk>>] = 0
    /\ \E l \in lines : \E u \in Users : cart[<<u, l.recipe>>] = 1

(* ------------------------ claims: subscriptions ------------------------ *)

\* C12: Subscribe(U, U) always fails with ValidationError and inserts no
\* Subscription row; no reachable state holds a Subscription row whose
\* user is its author.
C12_SelfSubscribeRejected ==
    /\ [](\A u \in Users : subs[<<u, u>>] = 0)
    /\ [][(/\ last'.op = "subscribe"
           /\ last'.method = "POST"
           /\ last'.pk = last'.user)
          => /\ last'.status = "ValidationError"
             /\ subs' = subs]_vars

\* C13: Subscribe(U, A) with U # A answers with a Conflict response (400
\* or 409) when the row (U, A) exists and leaves exactly one such row;
\* otherwise it inserts exactly one row (U, A).  No reachable state holds
\* two rows of one (user, author).
C13_SubscribeTwiceConflict ==
    /\ [](\A p \in Users \X Users : subs[p] <= 1)
    /\ [][(/\ last'.op = "subscribe"
           /\ last'.method = "POST"
           /\ last'.pk \in Users
           /\ last'.pk # last'.user
           /\ last'.status # "ValidationError")
          => IF subs[<<last'.user, last'.pk>>] >= 1
             THEN /\ last'.status \in {"400", "409"}
                  /\ subs' = subs
                  /\ subs'[<<last'.user, last'.pk>>] = 1
             ELSE /\ last'.status = "201"
                  /\ subs' = [subs EXCEPT ![<<last'.user, last'.pk>>] = 1]]_vars

\* C14: Unsubscribe(U, A) answers 404 and changes nothing when no row
\* (U, A) exists; when the row exists it deletes that row and no other.
C14_UnsubscribeMissingNotFound ==
    [][(last'.op = "subscribe" /\ last'.method = "DELETE")
       => IF SubscriptionCount(last'.user, last'.pk) = 0
          THEN /\ last'.status = "404"
               /\ subs' = subs
          ELSE /\ last'.status = "204"
               /\ subs' = [subs EXCEPT ![<<last'.user, last'.pk>>] = @ - 1]
               /\ subs'[<<last'.user, last'.pk>>] = 0]_vars

\* an unsubscribe that found its row, with another subscription of the
\* same user left in place
C14_Witness ==
    /\ last.op = "subscribe"
    /\ last.method = "DELETE"
    /\ last.status = "204"
    /\ subs[<<last.user, last.pk>>] = 0
    /\ \E a \in Users : a # last.pk /\ subs[<<last.user, a>>] = 1
    /\ \E u \in Users : u # last.user /\ subs[<<u, last.pk>>] = 1

(* ------------------ claims: recipe update and delete ------------------- *)

\* C15: deleting recipe R removes every ingredient line, every Favorite
\* row and every cart row of R and leaves the Ingredient rows, the Tag
\* rows and the rows of the other recipes as they were; afterwards no row
\* references R.
C15_DeleteCascades ==
    [][(last'.op = "destroy" /\ last'.status = "204")
       => LET R == last'.pk
              others == DOMAIN recipes \ {R}
          IN  /\ R \in DOMAIN recipes
              /\ DOMAIN recipes' = others
              /\ \A pk \in others : /\ recipes'[pk] = recipes[pk]
                                    /\ tagsOf'[pk] = tagsOf[pk]
              /\ R \notin DOMAIN tagsOf'
              /\ lines' = {l \in lines : l.recipe # R}
              /\ \A l \in lines' : l.recipe # R
              /\ \A p \in Users \X RecipeIds :
                    /\ fav'[p] = (IF p[2] = R THEN 0 ELSE fav[p])
                    /\ cart'[p] = (IF p[2] = R THEN 0 ELSE cart[p])
              /\ reference' = reference
              /\ subs' = subs]_vars

\* a recipe was deleted by its author while another recipe keeps its
\* lines, its favorites and its cart rows
C15_Witness ==
    /\ last.op = "destroy"
    /\ last.status = "204"
    /\ last.pk \notin DOMAIN recipes
    /\ \A p \in Users \X RecipeIds : p[2] = last.pk => fav[p] = 0 /\ cart[p] = 0
    /\ \E pk \in DOMAIN recipes :
          /\ \E l \in lines : l.recipe = pk
          /\ \E u \in Users : fav[<<u, pk>>] = 1 /\ cart[<<u, pk>>] = 1

\* C16: an update or delete of recipe R by an authenticated user who is
\* not its author is answered 403 and leaves R, its tags and its lines
\* unchanged; list and retrieve answer 200 for every viewer, anonymous or
\* not.
C16_OnlyAuthorWrites ==
    /\ [][(/\ last'.op \in {"partial_update", "destroy"}
           /\ last'.user \in Users
           /\ last'.pk \in DOMAIN recipes
           /\ recipes[last'.pk].author # last'.user)
          => /\ last'.status = "403"
             /\ recipes' = recipes
             /\ tagsOf' = tagsOf
             /\ lines' = lines]_vars
    /\ [][(last'.op = "retrieve" /\ last'.pk \in DOMAIN recipes)
          => /\ last'.status = "200"
             /\ last'.body.id = last'.pk]_vars
    /\ [][(last'.op = "list")
          => /\ last'.status = "200"
             /\ {last'.body[k].id : k \in DOMAIN last'.body}
                   = DOMAIN recipes]_vars

\* a delete by a user who is not the author was answered 403
C16_Witness ==
    /\ last.op = "destroy"
    /\ last.status = "403"
    /\ last.user \in Users
    /\ last.pk \in DOMAIN recipes
    /\ recipes[last.pk].author # last.user
    /\ \E l \in lines : l.recipe = last.pk

\* An update of an existing recipe by its author with the held payload.
UpdatedByAuthor ==
    /\ last.op = "partial_update"
    /\ last.pk \in DOMAIN recipes
    /\ recipes[last.pk].author = last.user

\* C17: after an Update of R by its author that supplies valid ingredient
\* lines, the update has succeeded and the lines of R are exactly the
\* supplied (ingredient id, amount) pairs, each once.
C17_UpdateReplacesLines ==
    (UpdatedByAuthor /\ ValidCreateInput(req)) =>
        /\ last.status = "200"
        /\ {<<l.ingredient, l.amount>> : l \in LinesOf(last.pk)}
              = SuppliedPairs(req)
        /\ Cardinality(LinesOf(last.pk)) = Len(req.ingredients.items)

\* C18: after an Update of R by its author that supplies valid tag ids,
\* the update has succeeded and the tag set of R is exactly the supplied
\* tag set.
C18_UpdateReplacesTags ==
    (UpdatedByAuthor /\ ValidCreateInput(req)) =>
        /\ last.status = "200"
        /\ tagsOf[last.pk] = Range(req.tags.items)

\* An update by the author whose payload has its scalars and omits tags
\* or ingredients.
OmitsAList(u, pk, obj) ==
    /\ pk \in DOMAIN recipes
    /\ recipes[pk].author = u
    /\ obj.name # "" /\ obj.text # "" /\ obj.cooking_time >= 1
    /\ ~obj.tags.given \/ ~obj.ingredients.given

C20_FlagsFollowViewer ==
    (last.op = "retrieve" /\ last.status = "200") =>
        IF last.user = AnonymousUser
        THEN ~last.body.is_favorited /\ ~last.body.is_in_shopping_cart
        ELSE /\ last.body.is_favorited <=> fav[<<last.user, last.pk>>] >= 1
             /\ last.body.is_in_shopping_cart
                   <=> cart[<<last.user, last.pk>>] >= 1

\* a viewer reads a recipe that is in their favorites and not in their
\* cart, while it is in the cart and not in the favorites of another user
C20_Witness ==
    /\ last.op = "retrieve"
    /\ last.status = "200"
    /\ last.user \in Users
    /\ last.body.is_favorited
    /\ ~last.body.is_in_shopping_cart
    /\ \E u \in Users \ {last.user} :
          fav[<<u, last.pk>>] = 0 /\ cart[<<u, last.pk>>] = 1

(* --------------------- claims: names and references -------------------- *)

\* C21: Create with a name that an existing recipe has fails with
\* ValidationError and adds nothing to the store; no reachable state holds
\* two Recipe rows of one name.
C21_DuplicateNameRejected ==
    /\ [](\A a, b \in DOMAIN recipes :
             a # b => recipes[a].name # recipes[b].name)
    /\ [][(/\ last'.op = "create"
           /\ \E pk \in DOMAIN recipes : recipes[pk].name = req.name)
          => /\ last'.status = "ValidationError"
             /\ recipes' = recipes
             /\ lines' = lines
             /\ tagsOf' = tagsOf]_vars

\* A payload that names a tag or an ingredient without a row.
NamesMissingRow(obj) ==
    \/ \E t \in Range(obj.tags.items) : t \notin Tags
    \/ \E it \in Range(obj.ingredients.items) : it.id \notin IngredientIds

TotalOf(a) == Cardinality({pk \in DOMAIN recipes : recipes[pk].author = a})

\* C23: the subscriptions of U list exactly the authors A with a
\* Subscription(U, A) row; each author comes with at most recipes_limit
\* recipes, the most recent ones, when the limit is given and with all of
\* them when it is not, and recipes_count is the author's total.
\* (last.pk holds the recipes_limit of the request.)
C23_SubscriptionsListed ==
    (last.op = "subscriptions") =>
        /\ last.status = "200"
        /\ {e.id : e \in last.body}
              = {a \in Users : subs[<<last.user, a>>] >= 1}
        /\ \A e \in last.body :
              LET shown == IF last.pk = NoLimit \/ last.pk > TotalOf(e.id)
                           THEN TotalOf(e.id)
                           ELSE last.pk
              IN  /\ e.recipes_count = TotalOf(e.id)
                  /\ Len(e.recipes) = shown
                  /\ \A k \in DOMAIN e.recipes :
                        /\ recipes[e.recipes[k].id].author = e.id
                        /\ Cardinality({pk \in DOMAIN recipes :
                                           /\ recipes[pk].author = e.id
                                           /\ pk > e.recipes[k].id}) = k - 1

(* -------------------- claims: frames of the toggles -------------------- *)

\* The rows of rel other than the one of pair p are the same before and
\* after the step, and the row of p changes by at most one.
OnlyRowChanged(before, after, p) ==
    \A q \in DOMAIN before :
        IF q = p
        THEN after[q] \in {before[q] - 1, before[q], before[q] + 1}
        ELSE after[q] = before[q]

\* C24: an add or remove of a favorite or of a cart entry changes at most
\* the one (user, recipe) row of the relation it addresses; the recipes,
\* the users, the lines, the tags, the subscriptions, the other relation
\* and the rows of other users and recipes stay as they were.
C24_ToggleTouchesOneRow ==
    [][(last'.op \in {"favorite", "shopping_cart"}) =>
          /\ UNCHANGED <<recipes, nextId, tagsOf, lines, subs, reference,
                         users>>
          /\ (last'.op = "favorite") =>
                /\ cart' = cart
                /\ OnlyRowChanged(fav, fav', <<last'.user, last'.pk>>)
          /\ (last'.op = "shopping_cart") =>
                /\ fav' = fav
                /\ OnlyRowChanged(cart, cart', <<last'.user, last'.pk>>)]_vars

\* A favorite was removed while the user held another favorite, another
\* user held the same recipe and the carts had rows.
C24_Witness ==
    /\ last.op = "favorite"
    /\ last.status = "204"
    /\ fav[<<last.user, last.pk>>] = 0
    /\ \E pk \in RecipeIds \ {last.pk} : fav[<<last.user, pk>>] = 1
    /\ \E u \in Users \ {last.user} : fav[<<u, last.pk>>] = 1
    /\ cart[<<last.user, last.pk>>] = 1
    /\ lines # {}

(* ---------------------- claims: shopping list scope -------------------- *)

\* The shopping lists download_shopping_cart may answer user u with: the
\* aggregated rows of u in an order by name, formatted.
Bodies(u) == {response_body(rows) : rows \in order_by_name(annotate_sum(u))}

\* The recipes in the cart of u, and the lines of those recipes.
OwnCart(u) == {pk \in RecipeIds : cart[<<u, pk>>] > 0}

OwnLines(u) == {l \in lines : l.recipe \in OwnCart(u)}

\* C28: the shopping list of U is a function of U's cart rows and of the
\* lines of the recipes in them: a step that leaves both as they were
\* (whatever it does to the carts of other users, to the favorites, to
\* other recipes and their lines) leaves the rows of U's list as they
\* were, and a download answers with those rows, ordered and formatted.
C28_ListOfOwnCartOnly ==
    [][/\ \A u \in Users :
             (OwnCart(u)' = OwnCart(u) /\ OwnLines(u)' = OwnLines(u))
                => annotate_sum(u)' = annotate_sum(u)
       /\ (last'.op = "download_shopping_cart")
             => \E u \in Users : /\ u = last'.user
                                 /\ last'.body \in Bodies(u)']_vars

\* A user with a recipe in the cart downloaded the list while the other
\* user's cart held a recipe that is not in the user's cart.
C28_Witness ==
    /\ last.op = "download_shopping_cart"
    /\ OwnCart(last.user) # {}
    /\ \E v \in Users \ {last.user} : OwnCart(v) \ OwnCart(last.user) # {}

(* ------------------ claims: concurrent toggle requests ----------------- *)

\* C25: however concurrent add-favorite requests of one user for one
\* recipe interleave their exists-test and their insert, at most one
\* Favorite row of the pair is stored: the insert of a request that passed
\* the test while the row was missing and finds it present is rejected by
\* the constraint.
C25_OneFavoriteRowUnderRace ==
    /\ [](\A p \in DOMAIN fav : fav[p] <= 1)
    /\ [][\A r \in Requests :
             (/\ inflight[r].op = "favorite"
              /\ inflight[r].stage = "checked"
              /\ inflight'[r] = Idle
              /\ fav[<<inflight[r].user, inflight[r].pk>>] >= 1)
                => /\ last'.status = "IntegrityError"
                   /\ fav' = fav]_vars

\* A request that passed the test has been rejected at its insert, the
\* row of the pair being there once.
C25_Witness ==
    /\ last.op = "favorite"
    /\ last.method = "POST"
    /\ last.status = "IntegrityError"
    /\ fav[<<last.user, last.pk>>] = 1

\* The rows of the shopping list of u when each recipe in the cart of u
\* is counted once.
CountedOnce(u) ==
    LET L == OwnLines(u)
    IN  {[name |-> IngredientName(l),
          measurement_unit |-> IngredientUnit(l),
          result_sum_ingr |->
             LET G == {x \in L : /\ IngredientName(x) = IngredientName(l)
                                 /\ IngredientUnit(x) = IngredientUnit(l)}
             IN  SumOver(G, [x \in G |-> x.amount])] : l \in L}

\* C26: under every sequence and interleaving of cart adds and removes
\* there is at most one cart row per (user, recipe), so the shopping list
\* counts the amounts of a recipe at most once per user.
C26_OneCartRowUnderRace ==
    /\ \A p \in DOMAIN cart : cart[p] <= 1
    /\ (last.op = "download_shopping_cart") =>
          \E rows \in order_by_name(CountedOnce(last.user)) :
              last.body = response_body(rows)

\* A cart insert has been rejected after its request passed the test,
\* while another worker holds a row to delete.
C26_Witness ==
    /\ last.op = "shopping_cart"
    /\ last.method = "POST"
    /\ last.status = "IntegrityError"
    /\ cart[<<last.user, last.pk>>] = 1
    /\ \E r \in Requests : inflight[r].stage = "found"

(* ---------------------- claims: reads during update -------------------- *)

\* The (name, unit, amount) triples of the ingredient lines in a recipe
\* representation.
ShownLines(body) ==
    {<<i.name, i.measurement_unit, i.amount>> : i \in body.ingredients}

\* The triples of the lines every recipe of StoreOf has.
StoredLines ==
    {<<IngredientRows[1].name, IngredientRows[1].measurement_unit, 1>>,
     <<IngredientRows[2].name, IngredientRows[2].measurement_unit, 2>>}

\* The triples of the lines the payload obj supplies.
SuppliedLines(obj) ==
    {<<IngredientRows[it.id].name, IngredientRows[it.id].measurement_unit,
       it.amount>> : it \in Range(obj.ingredients.items)}

\* C27: a read of R that is answered while an Update of R is in progress
\* shows R with its complete old lines and tags or with its complete new
\* lines and tags, never with an empty or partial line list and never
\* without tags.
C27_ReadsSeeOldOrNew ==
    [][(/\ last' # last
        /\ last'.op = "retrieve"
        /\ last'.status = "200"
        /\ \E r \in Requests : /\ inflight[r].op = "partial_update"
                               /\ inflight[r].pk = last'.pk)
       => \/ /\ ShownLines(last'.body) = StoredLines
             /\ last'.body.tags = {"t1"}
          \/ /\ req.tags.given /\ req.ingredients.given
             /\ ShownLines(last'.body) = SuppliedLines(req)
             /\ last'.body.tags = Range(req.tags.items)]_vars

(* ----------------------- claims: frame of update ----------------------- *)

UpdateFrame ==
    [][(last'.op = "partial_update")
       => /\ recipes' = recipes
          /\ tagsOf' = tagsOf
          /\ \A pk \in DOMAIN recipes \ {last'.pk} :
                {l \in lines' : l.recipe = pk}
                   = {l \in lines : l.recipe = pk}]_vars

(* ------------------------ claims: user deletion ------------------------ *)

\* C30: deleting user U keeps U's recipes, with their lines and tags and
\* with author null, and deletes every Favorite row of U and every
\* Subscription row that has U as subscriber or as author; afterwards no
\* Favorite or Subscription row references a deleted user.  The rows of
\* the other users stay.
C30_UserDeleteCascades ==
    /\ [](\A u \in Users \ users :
             /\ \A pk \in RecipeIds : fav[<<u, pk>>] = 0
             /\ \A v \in Users : subs[<<u, v>>] = 0 /\ subs[<<v, u>>] = 0)
    /\ [][(last'.op = "delete_user") =>
             LET u == last'.pk IN
             /\ u \notin users'
             /\ DOMAIN recipes' = DOMAIN recipes
             /\ \A pk \in DOMAIN recipes :
                   /\ recipes'[pk].name = recipes[pk].name
                   /\ recipes'[pk].author =
                         IF recipes[pk].author = u THEN Null
                         ELSE recipes[pk].author
             /\ tagsOf' = tagsOf
             /\ lines' = lines
             /\ \A p \in DOMAIN fav :
                   fav'[p] = IF p[1] = u THEN 0 ELSE fav[p]
             /\ \A p \in DOMAIN subs :
                   subs'[p] = IF p[1] = u \/ p[2] = u THEN 0
                              ELSE subs[p]]_vars

\* A user with a recipe, a favorite, a subscription and a subscriber has
\* been deleted and the recipe has been read since, while the other user
\* still has a favorite.
C30_Witness ==
    /\ last.op = "retrieve"
    /\ last.status = "200"
    /\ last.body.author = Null
    /\ last.body.ingredients # {}
    /\ \E u \in users, pk \in RecipeIds : fav[<<u, pk>>] = 1

====
